---- MODULE Spec2Model ----
(***************************************************************************)
(* Model of putter (src/putter.go): an HTTP server that serves one wiki    *)
(* file and accepts conditional PUTs of a replacement.  The model covers   *)
(* the Server type, newServer, handleHead, handleGet, handlePut,           *)
(* compressWiki, archiveWiki and setEtagFromHash, the sync.RWMutex that    *)
(* guards the ETag, and the part of the filesystem the handlers touch:     *)
(* the live wiki file, its .gz sibling, the archive directory and the      *)
(* per-request temporary upload file.                                      *)
(*                                                                         *)
(* File contents are small integers.  Empty (0) is a file of zero bytes,   *)
(* which is also what a create-and-truncate leaves behind; NoFile means    *)
(* the path does not exist.                                                *)
(***************************************************************************)
EXTENDS Integers, Sequences, FiniteSets, TLC

\* ------------------------------------------------------------------ bounds
NumSlots == 2        \* requests that can be in flight at once
MaxRequests == 3     \* requests issued in one behaviour
NumContents == 2     \* distinct document bodies clients upload
MaxTime == 2         \* clock readings 0..MaxTime

\* --------------------------------------------------------------- encodings
NoFile == -1
Empty == 0
Invalid == -2
NoToken == 0         \* an absent or empty If-Match header
GzBase == 100
HexBase == 1000
HashMod == 64
Resolution == 2

Slots == 1..NumSlots
Contents == 1..NumContents
Times == 0..MaxTime

\* md5.New() + io.Copy: the digest of a byte string
Md5Sum(b) == (b * 37 + 11) % HashMod

\* "\"" + hex.EncodeToString(h.Sum(nil)) + "\""
QuotedHex(h) == HexBase + h

\* the validator of a document with bytes b
EtagOf(b) == QuotedHex(Md5Sum(b))

\* gzip.NewWriterLevel + io.Copy + Close: the complete gzip stream of b
Gzip(b) == GzBase + b

\* what a gzip reader makes of the bytes z
Gunzip(z) == IF z >= GzBase THEN z - GzBase ELSE Invalid

\* t.Format(s.archiveFormat): the clock is finer than the filename
Format(t) == t \div Resolution

Names == { Format(t) : t \in Times }

VARIABLES
  isArchive,    \* Server.isArchive
  isCompress,   \* Server.isCompress
  cfgCompress,  \* the --compress flag handed to newServer
  etag,         \* Server.etag
  doc,          \* bytes at s.fileName
  gz,           \* bytes at s.fileName + ".gz", or NoFile
  archive,      \* archive directory: filename -> bytes, or NoFile
  now,          \* the last reading of time.Now()
  readers,      \* sync.RWMutex: read locks currently held
  writer,       \* sync.RWMutex: slot that called Lock(), or 0
  locked,       \* sync.RWMutex: the writer has the lock
  req,          \* the request being handled in each slot
  resp,         \* the response the last step sent, if it sent one
  issued,       \* requests issued so far
  prevs,        \* history: the document live before each 200 PUT, kept
                \* while archiving is on and no PUT has failed
  putFailed,    \* history: some PUT was answered 500
  fetched,      \* history: per validator, "no", "fresh" (handed out by
                \* HEAD or GET) or "stale" (a PUT was committed since)
  committed     \* history: the bytes of the last upload answered 200, at
                \* first the document the server started on

vars == <<isArchive, isCompress, cfgCompress, etag, doc, gz, archive, now,
          readers, writer, locked, req, resp, issued, prevs, putFailed,
          fetched, committed>>

config == <<isArchive, isCompress, cfgCompress>>
files == <<doc, gz, archive>>
mu == <<readers, writer, locked>>
history == <<prevs, putFailed, fetched, committed>>

Tokens == { EtagOf(c) : c \in Contents }

\* an archive directory without entries
NoArchive == [n \in Names |-> NoFile]

\* a slot: the request's inputs (method, ifMatch, body, gzip), the handler's
\* position and locals (etag, enc, fh, snap, temp, hash) and, for the
\* properties, what the server held when the request took the lock (preDoc,
\* preEtag, preArch) and whether its If-Match was handed out by an earlier
\* HEAD or GET and a PUT was committed since ("none", "fetched", "stale"),
\* and whether the last PUT committed carried this request's If-Match while
\* this one was on its way to the lock, and changed the ETag (raced), and
\* whether it repeats a PUT just answered 500 after its If-Match check, with
\* no other PUT taking the lock since (retry)
IdleReq == [pc |-> "idle", method |-> "NONE", ifMatch |-> NoToken,
            body |-> Empty, gzip |-> FALSE, etag |-> NoToken, enc |-> FALSE,
            fh |-> "none", snap |-> NoFile, temp |-> NoFile, hash |-> 0,
            preDoc |-> NoFile, preEtag |-> NoToken, preArch |-> NoArchive,
            known |-> "none", raced |-> FALSE, retry |-> FALSE]

\* a response: status, ETag header, Content-Encoding gzip, body; and of its
\* request: method, If-Match, uploaded body, what it saw under the lock, and
\* what is at the path of its temporary file once the handler has returned
NoResp == [method |-> "NONE", status |-> 0, etag |-> NoToken, enc |-> FALSE,
           body |-> NoFile, ifMatch |-> NoToken, upload |-> Empty,
           preDoc |-> NoFile, preEtag |-> NoToken, preArch |-> NoArchive,
           preCommitted |-> NoFile, locked |-> FALSE, stale |-> FALSE,
           raced |-> FALSE, retry |-> FALSE, temp |-> NoFile]

\* newServer: the state the server starts serving in.  Line 127 sets
\* isCompress from the isArchive argument; the file is hashed and, with
\* isCompress, compressed before the server is returned.
Init ==
  /\ isArchive \in BOOLEAN
  /\ cfgCompress \in BOOLEAN
  /\ isCompress = isArchive
  /\ doc \in Contents
  /\ etag = EtagOf(doc)
  /\ gz = IF isCompress THEN Gzip(doc) ELSE NoFile
  /\ archive = NoArchive
  /\ now = 0
  /\ readers = 0
  /\ writer = 0
  /\ locked = FALSE
  /\ req = [p \in Slots |-> IdleReq]
  /\ resp = NoResp
  /\ issued = 0
  /\ prevs = <<>>
  /\ putFailed = FALSE
  /\ fetched = [t \in Tokens |-> "no"]
  /\ committed = doc

\* a step that sends no response
Quiet == resp' = NoResp

Methods == {"HEAD", "GET", "PUT", "OPTIONS", "DELETE"}
Paths == {"/", "/x"}

\* ServeHTTP's routing: the handler's first position, or the status of a
\* request answered at once
Dispatch(path, method) ==
  IF path # "/" THEN [pc |-> "idle", status |-> 404]
  ELSE CASE method = "HEAD" -> [pc |-> "rlock", status |-> 0]
         [] method = "GET" -> [pc |-> "rlock", status |-> 0]
         [] method = "PUT" -> [pc |-> "tempfile", status |-> 0]
         [] method = "OPTIONS" -> [pc |-> "idle", status |-> 200]
         [] OTHER -> [pc |-> "idle", status |-> 405]

\* the client that was just answered 500 by a PUT that had passed the
\* If-Match check (it held the lock) sends the same PUT again
IsRetry(m, ifm, b) ==
  /\ m = "PUT"
  /\ resp.method = "PUT" /\ resp.status = 500 /\ resp.locked
  /\ resp.ifMatch = ifm /\ resp.upload = b

\* a request arrives in the first free slot: ServeHTTP routes it
\* (handleOptions and the rejections answer at once, without touching the
\* server's state)
ServeHTTP(p) ==
  /\ req[p].pc = "idle"
  /\ \A q \in Slots : req[q].pc = "idle" => p <= q
  /\ issued < MaxRequests
  /\ \E path \in Paths, m \in Methods, ifm \in {NoToken} \cup Tokens,
        b \in Contents, g \in BOOLEAN :
       /\ m # "PUT" => (ifm = NoToken /\ b = 1)
       /\ m # "GET" => g = FALSE
       /\ path # "/" => (ifm = NoToken /\ b = 1 /\ g = FALSE /\ m = "GET")
       /\ LET d == Dispatch(path, m) IN
          IF d.pc = "idle"
          THEN /\ resp' = [NoResp EXCEPT !.method = m, !.status = d.status]
               /\ req' = req
          ELSE /\ Quiet
               /\ req' = [req EXCEPT ![p] =
                    [IdleReq EXCEPT !.pc = d.pc, !.method = m,
                       !.ifMatch = ifm, !.gzip = g,
                       !.body = IF m = "PUT" THEN b ELSE Empty,
                       !.known = IF m = "PUT" /\ ifm # NoToken
                                     /\ fetched[ifm] # "no"
                                 THEN "fetched" ELSE "none",
                       !.retry = IsRetry(m, ifm, b)]]
  /\ issued' = issued + 1
  /\ UNCHANGED <<config, etag, files, now, mu, history>>

\* variant: RLock never waits for a writer
CanRLockAlways == TRUE

\* sync.RWMutex.RLock: blocks while a writer holds or awaits the lock
CanRLock == writer = 0

\* a validator handed to a client by HEAD or GET
Fetch(t) == [fetched EXCEPT ![t] = IF @ = "no" THEN "fresh" ELSE @]

\* ---------------------------------------------------------------- handleHead
HeadRLock(p) ==
  /\ req[p].pc = "rlock" /\ req[p].method = "HEAD"
  /\ CanRLock
  /\ readers' = readers + 1
  /\ req' = [req EXCEPT ![p].pc = "head"]
  /\ Quiet
  /\ UNCHANGED <<config, etag, files, now, writer, locked, issued, history>>

\* lines 177-178 and the deferred RUnlock
HeadRespond(p) ==
  /\ req[p].pc = "head"
  /\ resp' = [NoResp EXCEPT !.method = "HEAD", !.status = 200,
                            !.etag = etag, !.preEtag = etag, !.preDoc = doc,
                            !.locked = TRUE]
  /\ req' = [req EXCEPT ![p] = IdleReq]
  /\ readers' = readers - 1
  /\ fetched' = Fetch(etag)
  /\ UNCHANGED <<config, etag, files, now, writer, locked, issued, prevs,
                 putFailed, committed>>

\* ----------------------------------------------------------------- handleGet
GetRLock(p) ==
  /\ req[p].pc = "rlock" /\ req[p].method = "GET"
  /\ CanRLock
  /\ readers' = readers + 1
  /\ req' = [req EXCEPT ![p].pc = "open"]
  /\ Quiet
  /\ UNCHANGED <<config, etag, files, now, writer, locked, issued, history>>

\* line 195: whether handleGet serves the .gz sibling
UseGzip(accept) == isCompress /\ accept

\* variant: the read lock is kept while the body is streamed
GetOpenKeepsLock(p) ==
  /\ req[p].pc = "open"
  /\ LET ext == isCompress /\ req[p].gzip
         file == IF ext THEN gz ELSE doc
     IN IF file # NoFile
        THEN /\ req' = [req EXCEPT ![p].pc = "stream", ![p].enc = ext,
                           ![p].etag = etag, ![p].snap = doc,
                           ![p].preDoc = doc,
                           ![p].fh = IF ext THEN "gz" ELSE "doc"]
             /\ Quiet
        ELSE /\ req' = [req EXCEPT ![p] = IdleReq]
             /\ resp' = [NoResp EXCEPT !.method = "GET", !.status = 500,
                            !.enc = ext, !.locked = TRUE]
  /\ UNCHANGED <<config, etag, files, now, mu, issued, history>>

\* lines 192-213: capture the ETag, open and stat the file, RUnlock.
\* The two error returns leave without RUnlock.  The handle on the live file
\* keeps the bytes it was opened on (a rename puts another file at the path);
\* the handle on the .gz file reads whatever that file holds when read.
GetOpen(p) ==
  /\ req[p].pc = "open"
  /\ LET ext == UseGzip(req[p].gzip)
         file == IF ext THEN gz ELSE doc
     IN \E out \in {"ok", "openfail", "statfail"} :
          /\ file = NoFile => out = "openfail"
          /\ IF out = "ok"
             THEN /\ req' = [req EXCEPT ![p].pc = "stream", ![p].enc = ext,
                                ![p].etag = etag, ![p].snap = doc,
                                ![p].preDoc = doc,
                                ![p].fh = IF ext THEN "gz" ELSE "doc"]
                  /\ Quiet
                  /\ readers' = readers - 1
             ELSE /\ req' = [req EXCEPT ![p] = IdleReq]
                  /\ resp' = [NoResp EXCEPT !.method = "GET", !.status = 500,
                                 !.enc = ext, !.locked = TRUE]
                  /\ readers' = readers
  /\ UNCHANGED <<config, etag, files, now, writer, locked, issued, history>>

\* lines 216-218: http.ServeContent streams from the open handle
GetStream(p) ==
  /\ req[p].pc = "stream"
  /\ resp' = [NoResp EXCEPT !.method = "GET", !.status = 200,
                 !.etag = req[p].etag, !.enc = req[p].enc,
                 !.body = IF req[p].fh = "gz" THEN gz ELSE req[p].snap,
                 !.preDoc = req[p].preDoc, !.preEtag = req[p].etag,
                 !.locked = TRUE]
  /\ req' = [req EXCEPT ![p] = IdleReq]
  /\ fetched' = Fetch(req[p].etag)
  /\ UNCHANGED <<config, etag, files, now, mu, issued, prevs, putFailed,
                 committed>>

\* ----------------------------------------------------------------- handlePut
\* a PUT answers with status st and ETag header tag.  The deferred
\* os.Remove(f.Name()) and f.Close() run, so the slot's temporary file is
\* gone.  The response records what the server held when the request took
\* the lock or, if it never did, when it answered.
\* Races(p, q, tag): PUT p commits ETag tag, which differs from the If-Match
\* it was accepted on, while PUT q with the same If-Match has not yet called
\* s.mu.Lock() or waits in it
\* variant: the temporary file is left behind
RemoveKeepsFile(t) == t

\* the deferred os.Remove(f.Name()), line 231: what is at the path afterwards
RemoveTemp(t) == NoFile

Races(p, q, tag) ==
  /\ req[q].method = "PUT"
  /\ req[q].pc \in {"tempfile", "copy", "lock"}
  /\ req[p].ifMatch # NoToken
  /\ req[q].ifMatch = req[p].ifMatch
  /\ req[p].preEtag = req[p].ifMatch
  /\ tag # req[p].ifMatch

PutReply(p, st, tag) ==
  /\ resp' = [NoResp EXCEPT !.method = "PUT", !.status = st, !.etag = tag,
                 !.ifMatch = req[p].ifMatch, !.upload = req[p].body,
                 !.locked = (writer = p /\ locked),
                 !.preDoc = IF writer = p /\ locked THEN req[p].preDoc
                            ELSE doc,
                 !.preEtag = IF writer = p /\ locked THEN req[p].preEtag
                             ELSE etag,
                 !.preArch = IF writer = p /\ locked THEN req[p].preArch
                             ELSE archive,
                 !.preCommitted = committed,
                 !.stale = (req[p].known = "stale"),
                 !.raced = req[p].raced,
                 !.retry = req[p].retry,
                 !.temp = RemoveTemp(req[p].temp)]
  /\ req' = [q \in Slots |->
               IF q = p THEN IdleReq
               ELSE IF st = 200
                    THEN [req[q] EXCEPT !.raced = Races(p, q, tag)]
                    ELSE req[q]]
  /\ putFailed' = (putFailed \/ st = 500)
  /\ prevs' = IF st = 500 \/ putFailed \/ ~isArchive THEN <<>>
              ELSE IF st = 200 THEN Append(prevs, req[p].preDoc)
              ELSE prevs

\* the deferred s.mu.Unlock()
Unlock ==
  /\ writer' = 0
  /\ locked' = FALSE
  /\ readers' = readers

\* line 225: ioutil.TempFile
PutTempFile(p) ==
  /\ req[p].pc = "tempfile"
  /\ \E ok \in BOOLEAN :
       IF ok
       THEN /\ req' = [req EXCEPT ![p].pc = "copy", ![p].temp = Empty]
            /\ Quiet /\ UNCHANGED <<putFailed, prevs>>
       ELSE PutReply(p, 500, NoToken)
  /\ UNCHANGED <<config, etag, files, now, mu, issued, fetched, committed>>

\* lines 234-248: io.Copy of the body into the file and the hash, f.Close
PutCopyBody(p) ==
  /\ req[p].pc = "copy"
  /\ \E ok \in BOOLEAN :
       IF ok
       THEN /\ req' = [req EXCEPT ![p].pc = "lock", ![p].temp = req[p].body,
                          ![p].hash = Md5Sum(req[p].body)]
            /\ Quiet /\ UNCHANGED <<putFailed, prevs>>
       ELSE PutReply(p, 500, NoToken)
  /\ UNCHANGED <<config, etag, files, now, mu, issued, fetched, committed>>

\* line 250, sync.RWMutex.Lock: take the writers' mutex and announce the
\* writer, which keeps new readers out
PutLock(p) ==
  /\ req[p].pc = "lock"
  /\ writer = 0
  /\ writer' = p
  /\ req' = [req EXCEPT ![p].pc = "drain"]
  /\ Quiet
  /\ UNCHANGED <<config, etag, files, now, readers, locked, issued, history>>

\* line 250, sync.RWMutex.Lock: wait until the readers have left
PutDrain(p) ==
  /\ req[p].pc = "drain"
  /\ writer = p
  /\ readers = 0
  /\ locked' = TRUE
  /\ req' = [q \in Slots |->
               IF q = p
               THEN [req[p] EXCEPT !.pc = "validate", !.preDoc = doc,
                       !.preEtag = etag, !.preArch = archive,
                       !.known = IF req[p].known = "fetched"
                                    /\ fetched[req[p].ifMatch] = "stale"
                                 THEN "stale" ELSE req[p].known]
               ELSE [req[q] EXCEPT !.retry = FALSE]]
  /\ Quiet
  /\ UNCHANGED <<config, etag, files, now, readers, writer, issued, history>>

\* variant: the token is never compared
ConflictNever(ifm, cur) == FALSE

\* variant: the token is compared even when the header is absent
ConflictStrict(ifm, cur) == ifm # cur

\* line 254: etag != "" && etag != s.etag
Conflict(ifm, cur) == ifm # NoToken /\ ifm # cur

\* variant: the live wiki is archived before the token is compared
PutValidateAfterArchive(p) ==
  /\ req[p].pc = "validate"
  /\ archive' = IF isArchive THEN [archive EXCEPT ![Format(now)] = doc]
                ELSE archive
  /\ IF Conflict(req[p].ifMatch, etag)
     THEN /\ PutReply(p, 412, NoToken)
          /\ Unlock
     ELSE /\ req' = [req EXCEPT ![p].pc = "rename"]
          /\ Quiet /\ UNCHANGED <<putFailed, prevs, mu>>
  /\ UNCHANGED <<config, etag, doc, gz, now, issued, fetched, committed>>

\* lines 253-258
PutValidate(p) ==
  /\ req[p].pc = "validate"
  /\ IF Conflict(req[p].ifMatch, etag)
     THEN /\ PutReply(p, 412, NoToken)
          /\ Unlock
     ELSE /\ req' = [req EXCEPT ![p].pc = "archive"]
          /\ Quiet /\ UNCHANGED <<putFailed, prevs, mu>>
  /\ UNCHANGED <<config, etag, files, now, issued, fetched, committed>>

\* archiveWiki, lines 323-345: the outcomes of one call that reads the clock
\* as t: the error returned and the archive directory afterwards (os.Open
\* or os.Create fails; io.Copy fails; success).  os.Create truncates a file
\* that exists.
ArchiveOutcomes(t) ==
  LET name == Format(t) IN
  { [err |-> TRUE, dir |-> archive],
    [err |-> TRUE, dir |-> [archive EXCEPT ![name] = Empty]],
    [err |-> FALSE, dir |-> [archive EXCEPT ![name] = doc]] }

\* variant: the staged file is renamed first and archived afterwards
PutArchiveAfterRename(p) ==
  /\ req[p].pc = "archive"
  /\ doc' = req[p].temp
  /\ \E t \in now..MaxTime :
       /\ now' = t
       /\ archive' = IF isArchive
                     THEN [archive EXCEPT ![Format(t)] = req[p].temp]
                     ELSE archive
  /\ req' = [req EXCEPT ![p].pc = "rename"]
  /\ Quiet /\ UNCHANGED <<putFailed, prevs, mu>>
  /\ UNCHANGED <<config, etag, gz, issued, fetched, committed>>

\* lines 260-265.  Only archiveWiki reads the clock, so time passes here:
\* the reading is any time from the last reading on.
PutArchive(p) ==
  /\ req[p].pc = "archive"
  /\ IF ~isArchive
     THEN /\ req' = [req EXCEPT ![p].pc = "rename"]
          /\ Quiet /\ UNCHANGED <<archive, now, putFailed, prevs, mu>>
     ELSE \E t \in now..MaxTime : \E o \in ArchiveOutcomes(t) :
            /\ now' = t
            /\ archive' = o.dir
            /\ IF o.err
               THEN /\ PutReply(p, 500, NoToken)
                    /\ Unlock
               ELSE /\ req' = [req EXCEPT ![p].pc = "rename"]
                    /\ Quiet /\ UNCHANGED <<putFailed, prevs, mu>>
  /\ UNCHANGED <<config, etag, doc, gz, issued, fetched, committed>>

\* variant: the rename leaves the live file in place
RenameKeepsLive(staged, live) == live

\* os.Rename(f.Name(), s.fileName): the bytes at s.fileName afterwards
RenameResult(staged, live) == staged

\* variant: the ETag is set as soon as the staged file is renamed
PutRenameSetsEtag(p) ==
  /\ req[p].pc = "rename"
  /\ \E ok \in BOOLEAN :
       IF ok
       THEN /\ doc' = req[p].temp
            /\ etag' = QuotedHex(req[p].hash)
            /\ req' = [req EXCEPT ![p].pc = "compress", ![p].temp = NoFile]
            /\ Quiet /\ UNCHANGED <<putFailed, prevs, mu>>
       ELSE /\ doc' = doc /\ etag' = etag
            /\ PutReply(p, 500, NoToken)
            /\ Unlock
  /\ UNCHANGED <<config, gz, archive, now, issued, fetched, committed>>

\* lines 267-272
PutRename(p) ==
  /\ req[p].pc = "rename"
  /\ \E ok \in BOOLEAN :
       IF ok
       THEN /\ doc' = RenameResult(req[p].temp, doc)
            /\ req' = [req EXCEPT ![p].pc = "compress", ![p].temp = NoFile]
            /\ Quiet /\ UNCHANGED <<putFailed, prevs, mu>>
       ELSE /\ doc' = doc
            /\ PutReply(p, 500, NoToken)
            /\ Unlock
  /\ UNCHANGED <<config, etag, gz, archive, now, issued, fetched, committed>>

\* variant: the ETag is set before the wiki is compressed
PutCompressSetsEtag(p) ==
  /\ req[p].pc = "compress"
  /\ etag' = QuotedHex(req[p].hash)
  /\ IF ~isCompress
     THEN /\ req' = [req EXCEPT ![p].pc = "commit"]
          /\ Quiet /\ UNCHANGED <<gz, putFailed, prevs, mu>>
     ELSE \E ok \in BOOLEAN :
            IF ok
            THEN /\ gz' = Empty
                 /\ req' = [req EXCEPT ![p].pc = "gzcopy"]
                 /\ Quiet /\ UNCHANGED <<putFailed, prevs, mu>>
            ELSE /\ gz' = gz
                 /\ PutReply(p, 500, NoToken)
                 /\ Unlock
  /\ UNCHANGED <<config, doc, archive, now, issued, fetched, committed>>

\* compressWiki, lines 290-309: nothing to do, or open the source and
\* create (truncate) the .gz file
PutCompress(p) ==
  /\ req[p].pc = "compress"
  /\ IF ~isCompress
     THEN /\ req' = [req EXCEPT ![p].pc = "commit"]
          /\ Quiet /\ UNCHANGED <<gz, putFailed, prevs, mu>>
     ELSE \E ok \in BOOLEAN :
            IF ok
            THEN /\ gz' = Empty
                 /\ req' = [req EXCEPT ![p].pc = "gzcopy"]
                 /\ Quiet /\ UNCHANGED <<putFailed, prevs, mu>>
            ELSE /\ gz' = gz
                 /\ PutReply(p, 500, NoToken)
                 /\ Unlock
  /\ UNCHANGED <<config, etag, doc, archive, now, issued, fetched, committed>>

\* compressWiki, lines 312-318: io.Copy(dstz, src) and the deferred Close
PutCompressCopy(p) ==
  /\ req[p].pc = "gzcopy"
  /\ \E ok \in BOOLEAN :
       IF ok
       THEN /\ gz' = Gzip(doc)
            /\ req' = [req EXCEPT ![p].pc = "commit"]
            /\ Quiet /\ UNCHANGED <<putFailed, prevs, mu>>
       ELSE /\ gz' = Empty
            /\ PutReply(p, 500, NoToken)
            /\ Unlock
  /\ UNCHANGED <<config, etag, doc, archive, now, issued, fetched, committed>>

\* variant: the ETag is left as it was
setEtagKeepsOld(h) == etag

\* setEtagFromHash: "\"" + hex.EncodeToString(h.Sum(nil)) + "\""
setEtagFromHash(h) == QuotedHex(h)

\* lines 281-285 and the deferred Unlock
PutCommit(p) ==
  /\ req[p].pc = "commit"
  /\ etag' = setEtagFromHash(req[p].hash)
  /\ PutReply(p, 200, etag')
  /\ Unlock
  /\ fetched' = [t \in Tokens |->
                   IF fetched[t] = "fresh" THEN "stale" ELSE fetched[t]]
  /\ committed' = req[p].body
  /\ UNCHANGED <<config, files, now, issued>>

Next ==
  \/ \E p \in Slots : ServeHTTP(p)
  \/ \E p \in Slots : HeadRLock(p)
  \/ \E p \in Slots : HeadRespond(p)
  \/ \E p \in Slots : GetRLock(p)
  \/ \E p \in Slots : GetOpen(p)
  \/ \E p \in Slots : GetStream(p)
  \/ \E p \in Slots : PutTempFile(p)
  \/ \E p \in Slots : PutCopyBody(p)
  \/ \E p \in Slots : PutLock(p)
  \/ \E p \in Slots : PutDrain(p)
  \/ \E p \in Slots : PutValidate(p)
  \/ \E p \in Slots : PutArchive(p)
  \/ \E p \in Slots : PutRename(p)
  \/ \E p \in Slots : PutCompress(p)
  \/ \E p \in Slots : PutCompressCopy(p)
  \/ \E p \in Slots : PutCommit(p)

Spec == Init /\ [][Next]_vars

\* the next step of the handler running in slot p
Handler(p) ==
  \/ HeadRLock(p) \/ HeadRespond(p)
  \/ GetRLock(p) \/ GetOpen(p) \/ GetStream(p)
  \/ PutTempFile(p) \/ PutCopyBody(p) \/ PutLock(p) \/ PutDrain(p)
  \/ PutValidate(p) \/ PutArchive(p) \/ PutRename(p) \/ PutCompress(p)
  \/ PutCompressCopy(p) \/ PutCommit(p)

\* every handler goroutine keeps running, each I/O step ends, and a
\* goroutine that can take the lock again and again does take it
FairSpec == Spec /\ \A p \in Slots : SF_vars(Handler(p))

\* ------------------------------------------------------------------ claims
\* the archive entries' contents, in filename order from name n on
RECURSIVE EntriesFrom(_)
EntriesFrom(n) ==
  IF n \notin Names THEN <<>>
  ELSE (IF archive[n] = NoFile THEN <<>> ELSE <<archive[n]>>)
         \o EntriesFrom(n + 1)

\* the document a response body represents
Decoded(r) == IF r.enc THEN Gunzip(r.body) ELSE r.body

PutAnswered == resp.method = "PUT"
GetServed == resp.method = "GET" /\ resp.status = 200

\* C1: whenever no PUT holds the exclusive lock, the Fingerprint is the hash
\* of the bytes at the live Document path.
C1_FingerprintIsHashOfDocument == ~locked => etag = EtagOf(doc)

\* C2: a PUT whose non-empty If-Match differs from the Fingerprint it finds
\* under the lock answers 412 and leaves Document, Fingerprint and archive
\* as they were.
C2_MismatchIs412AndNoChange ==
  (PutAnswered /\ resp.locked /\ resp.ifMatch # NoToken
     /\ resp.ifMatch # resp.preEtag)
  => /\ resp.status = 412
     /\ doc = resp.preDoc
     /\ etag = resp.preEtag
     /\ archive = resp.preArch

C2_Witness ==
  /\ PutAnswered /\ resp.status = 412
  /\ resp.ifMatch # resp.preEtag
  /\ isArchive /\ archive # NoArchive

\* C3: a PUT whose If-Match equals the Fingerprint it finds under the lock,
\* and none of whose steps fails, answers 200; the live Document is then the
\* uploaded bytes and the stored and the reported Fingerprint are their hash.
C3_MatchingPutCommitsUpload ==
  (PutAnswered /\ resp.locked /\ resp.ifMatch = resp.preEtag
     /\ resp.status # 500)
  => /\ resp.status = 200
     /\ doc = resp.upload
     /\ etag = EtagOf(resp.upload)
     /\ resp.etag = EtagOf(resp.upload)

C3_Witness ==
  /\ PutAnswered /\ resp.status = 200
  /\ resp.ifMatch = resp.preEtag
  /\ resp.upload # resp.preDoc
  /\ doc = resp.upload

\* C4: a PUT without If-Match is never answered 412: it answers 200, with
\* the upload live, unless an I/O step failed (500).
C4_UnconditionalPutNever412 ==
  (PutAnswered /\ resp.ifMatch = NoToken)
  => /\ resp.status \in {200, 500}
     /\ resp.status = 200 => (doc = resp.upload /\ resp.locked)

C4_Witness ==
  /\ PutAnswered /\ resp.ifMatch = NoToken /\ resp.status = 200
  /\ resp.preEtag # EtagOf(resp.upload)

C6_GetEtagIsHashOfBody == GetServed => resp.etag = EtagOf(Decoded(resp))

\* C7: with archiving on and no PUT failed, the archive holds exactly one
\* entry per 200 PUT, the i-th being the Document live before the i-th.
C7_ArchiveHoldsEachReplacedDocument ==
  (isArchive /\ ~putFailed /\ ~locked) => EntriesFrom(0) = prevs

\* C8: after a PUT answered 500, Document and Fingerprint are what they
\* were before the request.
C8_FailedPutChangesNothing ==
  (PutAnswered /\ resp.status = 500)
  => (doc = resp.preDoc /\ etag = resp.preEtag)

\* C9: a body served with Content-Encoding gzip gunzips to the Document that
\* was live while the GET held the shared lock.
C9_GzipBodyIsLiveDocument ==
  (GetServed /\ resp.enc) => Gunzip(resp.body) = resp.preDoc

\* C10: every request is answered.
C10_EveryRequestAnswered ==
  \A p \in Slots : (req[p].pc # "idle") ~> (req[p].pc = "idle")

\* handlePut between s.mu.Lock() returning and the deferred Unlock
ExclusivePcs == {"validate", "archive", "rename", "compress", "gzcopy",
                 "commit"}
InExclusive(p) == req[p].pc \in ExclusivePcs

\* handleHead and handleGet between RLock returning and RUnlock
InShared(p) == req[p].pc \in {"head", "open"}

\* C11: at most one PUT is in its exclusive phase, and while one is, no HEAD
\* or GET is inside its shared-lock section.
C11_ExclusivePhaseExcludesAll ==
  /\ Cardinality({p \in Slots : InExclusive(p)}) <= 1
  /\ (\E p \in Slots : InExclusive(p)) => \A q \in Slots : ~InShared(q)

C11_Witness ==
  \E p, q \in Slots :
    /\ req[p].pc = "rename"
    /\ req[q].pc \in {"rlock", "drain", "lock"}

\* C12: the --compress flag alone decides compression.  Disabled: no .gz
\* file exists and no GET is served gzip-encoded.  Enabled: the .gz file
\* exists from startup on and a GET that accepts gzip is served from it.
C12_CompressFlagAloneDecides ==
  /\ ~cfgCompress =>
       /\ gz = NoFile
       /\ \A p \in Slots : req[p].pc = "stream" => ~req[p].enc
  /\ cfgCompress =>
       /\ gz # NoFile
       /\ \A p \in Slots :
            (req[p].pc = "stream" /\ req[p].gzip) => req[p].enc

\* C13: of two PUTs carrying the same If-Match F, the current ETag, the one
\* that takes the lock second, after the first committed an ETag other than
\* F (and no further PUT committed), is answered 412 and does not replace
\* the Document.
C13_SecondOfTwoRacingPutsIs412 ==
  (PutAnswered /\ resp.raced /\ resp.locked)
  => /\ resp.status = 412
     /\ resp.ifMatch # resp.preEtag
     /\ doc = resp.preDoc
     /\ etag = resp.preEtag

C13_Witness ==
  /\ PutAnswered /\ resp.raced /\ resp.locked
  /\ resp.status = 412
  /\ doc # resp.upload

\* handlePut after os.Rename succeeded
Renamed(p) == req[p].pc \in {"compress", "gzcopy", "commit"}

\* C14: with archiving on, a PUT that is about to rename has completed its
\* archive entry, which holds the Document still live; after the rename the
\* entry holds the previous Document, not the upload; and a PUT whose
\* archive entry does not hold the previous Document (archiving failed) has
\* not renamed.
C14_ArchiveCompletesBeforeRename ==
  isArchive =>
    /\ \A p \in Slots :
         req[p].pc = "rename" =>
           (doc = req[p].preDoc /\ archive[Format(now)] = doc)
    /\ \A p \in Slots :
         Renamed(p) => archive[Format(now)] = req[p].preDoc
    /\ (PutAnswered /\ resp.locked /\ resp.status # 412
          /\ archive[Format(now)] # resp.preDoc)
       => (resp.status = 500 /\ doc = resp.preDoc)

C14_Witness ==
  /\ isArchive
  /\ \E p \in Slots :
       /\ req[p].pc = "commit"
       /\ req[p].body # req[p].preDoc
       /\ doc = req[p].body
       /\ archive[Format(now)] = req[p].preDoc
       /\ req[p].preArch[Format(now)] # NoFile

\* C15: the archive is append-only: every entry that existed when a PUT
\* took the lock is still there, with the same content, when it answers.
C15_ArchiveEntriesNeverChange ==
  (PutAnswered /\ resp.locked)
  => \A n \in Names :
       resp.preArch[n] # NoFile => archive[n] = resp.preArch[n]

\* C16: the ETag changes only in the step in which a PUT answers 200 (lines
\* 281-283), to the ETag that response carries; every other step of every
\* request (HEAD, GET, OPTIONS, 404, 405, and PUTs answered 412 or 500)
\* leaves it as it was.
C16_EtagChangesOnlyAtCommit ==
  [][etag' # etag =>
       /\ \E p \in Slots : req[p].pc = "commit" /\ req'[p].pc = "idle"
       /\ resp'.method = "PUT" /\ resp'.status = 200
       /\ resp'.etag = etag']_vars

C16_Witness ==
  /\ PutAnswered /\ resp.status = 200
  /\ etag # resp.preEtag
  /\ \E q \in Slots : req[q].pc = "stream" /\ req[q].etag = resp.preEtag

\* C17: a PUT answered 500 after it passed the If-Match check leaves the
\* ETag as it found it, so that its If-Match still passes the check; and
\* the same PUT (same If-Match, same body) sent again, with no other PUT
\* taking the lock in between, passes it and is not answered 412.
C17_RetryAfterFailureIsNot412 ==
  /\ (PutAnswered /\ resp.locked /\ resp.status = 500)
     => (etag = resp.preEtag /\ ~Conflict(resp.ifMatch, etag))
  /\ (PutAnswered /\ resp.retry /\ resp.locked) => resp.status # 412
  /\ \A p \in Slots :
       (req[p].retry /\ req[p].pc = "validate")
       => ~Conflict(req[p].ifMatch, etag)

C17_Witness ==
  /\ isCompress /\ gz = Empty
  /\ \E p \in Slots :
       /\ req[p].retry /\ req[p].pc = "archive"
       /\ req[p].ifMatch # NoToken
       /\ doc = req[p].body /\ doc # committed

\* handlePut before s.mu.Lock(): creating the temporary file and copying
\* the body into it
Staging(p) == req[p].pc \in {"tempfile", "copy"}

\* C18: when a PUT has answered, whatever the status, nothing is left at the
\* path of its temporary file; and a staging step of a PUT, failed or not,
\* changes neither the Document nor the ETag (nor the .gz file or the
\* archive).
C18_TempFileGoneOnEveryExit ==
  /\ [](PutAnswered => resp.temp = NoFile)
  /\ [][\A p \in Slots :
         (Staging(p) /\ req'[p].pc # req[p].pc)
         => (doc' = doc /\ etag' = etag /\ gz' = gz /\ archive' = archive)]_vars

C18_Witness ==
  /\ PutAnswered /\ resp.status = 500 /\ ~resp.locked
  /\ resp.temp = NoFile
  /\ doc # resp.upload
  /\ \E q \in Slots : Staging(q) /\ req[q].temp = Empty

\* handlePut from the call of s.mu.Lock() on
LockRequested(p) == req[p].pc \in {"drain"} \cup ExclusivePcs

\* C19: a GET that goes on to stream has released the read lock in the step
\* that opened the file, and its streaming step does not touch the lock; a
\* PUT that has called Lock, or is about to, has its whole body in the
\* temporary file and hashed, and a PUT still staging has not called Lock.
C19_LockNotHeldWhileStreaming ==
  /\ [](\A p \in Slots :
         /\ (req[p].pc = "lock" \/ LockRequested(p))
            => /\ req[p].hash = Md5Sum(req[p].body)
               /\ req[p].temp = req[p].body \/ Renamed(p)
         /\ Staging(p) => writer # p)
  /\ [][\A p \in Slots :
         /\ (req[p].pc = "open" /\ req'[p].pc = "stream")
            => readers' = readers - 1
         /\ (req[p].pc = "stream" /\ req'[p].pc # "stream")
            => (readers' = readers /\ writer' = writer /\ locked' = locked)]_vars

C19_Witness ==
  /\ PutAnswered /\ resp.status = 200 /\ resp.locked
  /\ resp.upload # resp.preDoc /\ doc = resp.upload
  /\ readers = 0
  /\ \E q \in Slots : req[q].pc = "stream" /\ req[q].snap = resp.preDoc

\* C20: a handler that has returned holds no lock: when no request is in
\* flight, nobody holds the read lock or the write lock.
C20_NoLockHeldWhenIdle ==
  (\A p \in Slots : req[p].pc = "idle")
  => (readers = 0 /\ writer = 0 /\ ~locked)
====
